---- MODULE Spec2Model ----
(***************************************************************************)
(* Review scraper (src/main.py): fetch with rendered fallback, link        *)
(* discovery, pagination walk, per-page extraction and dedupe, date        *)
(* filter, and the main loop over the requested sources.                   *)
(***************************************************************************)
EXTENDS Integers, Sequences, FiniteSets, TLC

(* ------------------------------ bounds --------------------------------- *)
\* number of distinct page URLs of a site
MaxUrl == 2
\* calendar dates are the ordinals 1..MaxDate
MaxDate == 2
\* number of distinct review texts
MaxDesc == 2
\* review candidates found on one page
MaxPerPage == 2
\* records collected during one run (results plus the walk in progress)
MaxReviews == 2

(* ------------------------------ domains -------------------------------- *)
Urls == 1..MaxUrl
\* `None` as a URL
NoUrl == 0
Dates == 1..MaxDate
\* a date string the date parser rejects
BadDate == 0
DateArgs == Dates \cup {BadDate}
\* a record's "date" field: None, or the ISO string of a date
NoDate == <<>>
Sources == {"g2", "capterra", "trustradius"}
SourceArgs == Sources \cup {"all"}
\* candidate texts; 0 stands for a text that is empty or shorter than 40 characters
ShortText == 0
Texts == 0..MaxDesc

\* date.isoformat() and dateparser.parse(iso).date()
IsoFormat(d) == <<d>>
DateParse(s) == s[1]

(* ------------------------------- fetch --------------------------------- *)
\* What session.get does: a response with a status, or an exception that is
\* not an HTTPError (connection error, retries exhausted on 429/5xx).
Statuses == {200, 403, 404}
TransportOutcomes ==
    [kind : {"response"}, status : Statuses, exc : {"none"}]
      \cup [kind : {"error"}, status : {0}, exc : {"ConnectionError", "RetryError"}]

\* Where the browser may fail: installing the driver, starting Chrome,
\* navigating, reading page_source; or nowhere.
RenderOutcomes == {"install_fails", "chrome_fails", "get_fails", "page_source_fails", "ok"}

\* r.raise_for_status(): an HTTPError for 4xx and 5xx
RaisesForStatus(status) == status >= 400 /\ status < 600

Returned(via, events) ==
    [ret |-> "return", via |-> via, exc |-> "none", status |-> 0, events |-> events]
Raised(exc, status, events) ==
    [ret |-> "raise", via |-> "none", exc |-> exc, status |-> status, events |-> events]

\* Lines 63-76: "continue" means control falls through to line 78 with
\* use_selenium set.
TransportStage(t, avail) ==
    IF t.kind = "error" THEN Raised(t.exc, 0, <<>>)
    ELSE IF t.status = 403 /\ avail
         THEN [ret |-> "continue", via |-> "none", exc |-> "none", status |-> 403,
               events |-> <<>>]
    ELSE IF RaisesForStatus(t.status)
         THEN \* except requests.HTTPError
              IF t.status = 403 /\ avail
              THEN [ret |-> "continue", via |-> "none", exc |-> "none", status |-> 403,
                    events |-> <<>>]
              ELSE Raised("HTTPError", t.status, <<>>)
    ELSE Returned("transport", <<>>)

\* Lines 86-89, the protected block: driver.get, sleep(2), driver.page_source.
DriverBody(rn) ==
    CASE rn = "get_fails" -> [ok |-> FALSE, events |-> <<"get">>]
      [] rn = "page_source_fails" -> [ok |-> FALSE, events |-> <<"get", "sleep", "page_source">>]
      [] OTHER -> [ok |-> TRUE, events |-> <<"get", "sleep", "page_source">>]

\* Lines 90-91 as if quit were called after the block instead of in a finally.
DriverFinallyOnSuccessOnly(body) ==
    IF body.ok THEN [ok |-> TRUE, events |-> Append(body.events, "quit")] ELSE body

\* Lines 90-91: finally: driver.quit()
DriverFinally(body) == [ok |-> body.ok, events |-> Append(body.events, "quit")]

\* Lines 83-95: install the driver, start Chrome, run the protected block;
\* any exception becomes RuntimeError("Selenium fetch failed: ...").
RenderStage(rn) ==
    IF rn = "install_fails" THEN Raised("SeleniumFetchFailed", 0, <<"install">>)
    ELSE IF rn = "chrome_fails" THEN Raised("SeleniumFetchFailed", 0, <<"install", "chrome">>)
    ELSE LET done == DriverFinally(DriverBody(rn))
             events == <<"install", "chrome", "open">> \o done.events IN
         IF done.ok THEN Returned("render", events)
         ELSE Raised("SeleniumFetchFailed", 0, events)

\* fetch(url, use_selenium): lines 58-97
Fetch(hint, avail, t, rn) ==
    LET first == TransportStage(t, avail) IN
    IF first.ret # "continue" THEN first
    ELSE LET useSel == TRUE IN   \* lines 67 and 74
         IF useSel /\ avail THEN RenderStage(rn)
         ELSE Raised("UnableToFetch", 0, <<>>)


(* --------------------------- pure helpers ------------------------------ *)
\* Lines 173-220: one record per candidate whose text has 40 characters or more.
RECURSIVE ExtractRecords(_, _)
ExtractRecords(cands, source) ==
    IF cands = <<>> THEN <<>>
    ELSE LET c == Head(cands) IN
         IF c.text = ShortText THEN ExtractRecords(Tail(cands), source)
         ELSE <<[description |-> c.text,
                 date |-> IF c.date = BadDate THEN NoDate ELSE IsoFormat(c.date),
                 source |-> source]>>
              \o ExtractRecords(Tail(cands), source)

\* Lines 222-231: keep the first record of each description.
RECURSIVE DedupeFrom(_, _)
DedupeFrom(recs, seen_desc) ==
    IF recs = <<>> THEN <<>>
    ELSE LET r == Head(recs) IN
         IF r.description \in seen_desc THEN DedupeFrom(Tail(recs), seen_desc)
         ELSE <<r>> \o DedupeFrom(Tail(recs), seen_desc \cup {r.description})

\* parse_reviews_from_soup(soup, source)
ParseReviews(cands, source) == DedupeFrom(ExtractRecords(cands, source), {})

\* urljoin(base, href): 0 is a missing or empty href, a positive href is an
\* absolute URL, a negative one a relative reference resolved against base.
UrlJoin(base, href) ==
    IF href = 0 THEN base
    ELSE IF href > 0 THEN href
    ELSE ((base - href - 1) % MaxUrl) + 1

\* Lines 248-262: the anchor whose text holds "next", then <link rel="next">,
\* then a.pagination-next / a.next.
FindNext(nav, base) ==
    IF nav.a.present /\ nav.a.href # 0 THEN UrlJoin(base, nav.a.href)
    ELSE IF nav.link.present THEN UrlJoin(base, nav.link.href)
    ELSE IF nav.nxt.present /\ nav.nxt.href # 0 THEN UrlJoin(base, nav.nxt.href)
    ELSE NoUrl

\* Line 274 with the upper bound exclusive.
InRangeExclusiveEnd(d, start, end) == start <= d /\ d < end

\* Line 274
InRange(d, start, end) == start <= d /\ d <= end

\* Lines 266-278
RECURSIVE FilterByDate(_, _, _)
FilterByDate(recs, start, end) ==
    IF recs = <<>> THEN <<>>
    ELSE LET r == Head(recs)
             rest == FilterByDate(Tail(recs), start, end) IN
         IF r.date = NoDate THEN <<r>> \o rest
         ELSE IF InRange(DateParse(r.date), start, end) THEN <<r>> \o rest
         ELSE rest

\* Line 238 without the cycle guard.
WalkContinuesNoCycleGuard(url, seen) == url # NoUrl

\* Line 238: while next_url and next_url not in visited
WalkContinues(url, seen) == url # NoUrl /\ url \notin seen

\* Lines 242-244 with the handler missing: the exception leaves the walk.
WalkOnFetchErrorRaise == "raise"

\* Lines 242-244: except Exception: print; break
WalkOnFetchError == "break"

\* Line 332 with the list in another order.
SrcsOfReordered(source) ==
    IF source # "all" THEN <<source>> ELSE <<"capterra", "g2", "trustradius">>

\* Line 332
SrcsOf(source) ==
    IF source # "all" THEN <<source>> ELSE <<"g2", "capterra", "trustradius">>

\* Lines 333-342 with the try/except missing: an exception ends the run.
MainOnSourceErrorAbort == "abort"

\* Lines 341-342: except Exception: print
MainOnSourceError == "continue"

\* Lines 116-132: two search URLs and two slug guesses
NumCandidates == 4

(* ------------------------------- state --------------------------------- *)
VARIABLES
    SELENIUM_AVAILABLE, \* line 18/20
    args,               \* parse_args(): start, end, source, use_selenium
    pc,                 \* where the run is
    start_date, end_date, use_selenium,   \* main's locals
    srcs, si, results,                    \* main's loop: the list, the position, the reviews
    exitCode, out,                        \* sys.exit's code (-1: none); the output file (<<>>: none)
    candIdx,                              \* capterra_search_company_link's position in candidates
    next_url, visited, reviews,           \* _scrape_with_pagination's locals
    fetched,                              \* the URLs the walk in progress has fetched, in order
    log,                                  \* per source: that a fetch was issued, how it ended
    fetchCall                             \* the last direct call of fetch and its outcome

vars == <<SELENIUM_AVAILABLE, args, pc, start_date, end_date, use_selenium, srcs, si,
          results, exitCode, out, candIdx, next_url, visited, reviews, fetched, log,
          fetchCall>>

mainVars == <<start_date, end_date, use_selenium, srcs, si, results, exitCode, out>>
walkVars == <<next_url, visited, reviews, fetched>>

NoCall == [called |-> FALSE, url |-> NoUrl, hint |-> FALSE, status |-> 0, rn |-> "ok",
           result |-> Raised("none", 0, <<>>)]

Candidates == [text : Texts, date : DateArgs]
NavElems == [present : {TRUE}, href : (-1)..MaxUrl] \cup [present : {FALSE}, href : {0}]
Navs == [a : NavElems, link : NavElems, nxt : NavElems]

RECURSIVE SeqsUpTo(_, _)
SeqsUpTo(S, n) ==
    IF n = 0 THEN {<<>>}
    ELSE LET shorter == SeqsUpTo(S, n - 1) IN
         shorter \cup {Append(s, x) : s \in {t \in shorter : Len(t) = n - 1}, x \in S}

\* The render outcome matters only when the browser is started.
RenderChoices(t, avail) ==
    IF TransportStage(t, avail).ret = "continue" THEN RenderOutcomes ELSE {"ok"}

CurSource == srcs[si]

\* log entries: a fetch was issued for src (once per run of fetches), src ended.
LogFetch(l, s) ==
    LET e == [src |-> s, ev |-> "fetch"] IN
    IF l # <<>> /\ l[Len(l)] = e THEN l ELSE Append(l, e)
LogEnd(l, s, how) == Append(l, [src |-> s, ev |-> how])


\* The candidate lists a page may hold.
PageChoices == SeqsUpTo(Candidates, MaxPerPage)

\* Pages to draw: an element FindNext never consults is left absent, so each
\* outcome of the three lookups is drawn once.
NavChoices ==
    {n \in Navs :
        /\ (n.a.present /\ n.a.href # 0) => (~n.link.present /\ ~n.nxt.present)
        /\ n.link.present => ~n.nxt.present}

(* ------------------------------ actions -------------------------------- *)
\* A direct call fetch(url, use_selenium=hint): lines 58-97.
FetchCall ==
    /\ pc = "fetch"
    /\ \E url \in Urls, hint \in BOOLEAN, t \in TransportOutcomes :
         \E rn \in RenderChoices(t, SELENIUM_AVAILABLE) :
            fetchCall' = [called |-> TRUE, url |-> url, hint |-> hint, status |-> t.status,
                          rn |-> rn,
                          result |-> Fetch(hint, SELENIUM_AVAILABLE, t, rn)]
    /\ UNCHANGED <<SELENIUM_AVAILABLE, args, pc, mainVars, candIdx, walkVars, log>>

\* main, lines 312-332: parse the dates, settle use_selenium, build srcs.
MainStart ==
    /\ pc = "start"
    /\ IF args.start = BadDate \/ args.end = BadDate
       THEN \* parse_date raises ValueError: print, sys.exit(1)
            /\ pc' = "exited"
            /\ exitCode' = 1
            /\ UNCHANGED <<start_date, end_date, use_selenium, srcs, si, results>>
       ELSE /\ start_date' = args.start
            /\ end_date' = args.end
            /\ use_selenium' = (args.use_selenium /\ SELENIUM_AVAILABLE)
            /\ results' = <<>>
            /\ srcs' = SrcsOf(args.source)
            /\ si' = 1
            /\ pc' = "loop"
            /\ UNCHANGED exitCode
    /\ UNCHANGED <<SELENIUM_AVAILABLE, args, out, candIdx, walkVars, log, fetchCall>>

\* What main does when scrape_<s> raises: lines 341-342. l is the log so far.
SourceRaised(l) ==
    /\ log' = LogEnd(l, CurSource, "raised")
    /\ IF MainOnSourceError = "continue"
       THEN /\ si' = si + 1
            /\ pc' = "loop"
            /\ UNCHANGED <<results, exitCode>>
       ELSE /\ pc' = "exited"
            /\ exitCode' = 1
            /\ UNCHANGED <<si, results>>

\* scrape_<s> returns revs and main extends results with it: lines 336-340.
SourceReturned(revs, l, how) ==
    /\ log' = LogEnd(l, CurSource, how)
    /\ results' = results \o revs
    /\ si' = si + 1
    /\ pc' = "loop"
    /\ UNCHANGED exitCode

\* scrape_<s> found a link and enters _scrape_with_pagination: lines 235-237.
EnterWalk(link, l) ==
    /\ log' = l
    /\ next_url' = link
    /\ visited' = {}
    /\ reviews' = <<>>
    /\ fetched' = <<>>
    /\ pc' = "walk"
    /\ UNCHANGED <<si, results, exitCode>>

\* scrape_g2 / scrape_trustradius up to the walk: one search fetch, the first
\* matching anchor. Lines 100-110, 152-161, 281-288, 301-308.
SearchLink ==
    /\ pc = "loop"
    /\ si <= Len(srcs)
    /\ CurSource \in {"g2", "trustradius"}
    /\ LET l == LogFetch(log, CurSource) IN
       \E t \in TransportOutcomes :
         \E rn \in RenderChoices(t, SELENIUM_AVAILABLE) :
            LET res == Fetch(use_selenium, SELENIUM_AVAILABLE, t, rn) IN
            IF res.ret = "raise"
            THEN SourceRaised(l) /\ UNCHANGED walkVars
            ELSE \E link \in Urls \cup {NoUrl} :
                    IF link = NoUrl
                    THEN SourceReturned(<<>>, l, "not_found") /\ UNCHANGED walkVars
                    ELSE EnterWalk(link, l)
    /\ UNCHANGED <<SELENIUM_AVAILABLE, args, start_date, end_date, use_selenium, srcs,
                   out, candIdx, fetchCall>>

\* One round of capterra_search_company_link's loop over candidates, and
\* scrape_capterra's use of the result. Lines 134-149, 291-298.
CapterraCandidate ==
    /\ pc = "loop"
    /\ si <= Len(srcs)
    /\ CurSource = "capterra"
    /\ LET l == LogFetch(log, CurSource) IN
       \E t \in TransportOutcomes :
         \E rn \in RenderChoices(t, SELENIUM_AVAILABLE) :
            LET res == Fetch(use_selenium, SELENIUM_AVAILABLE, t, rn) IN
            \* except Exception: continue
            \E link \in (IF res.ret = "raise" THEN {NoUrl} ELSE Urls \cup {NoUrl}) :
               IF link # NoUrl
               THEN EnterWalk(link, l) /\ candIdx' = 1
               ELSE IF candIdx < NumCandidates
                    THEN /\ candIdx' = candIdx + 1
                         /\ log' = l
                         /\ UNCHANGED <<pc, si, results, exitCode, walkVars>>
                    ELSE /\ candIdx' = 1
                         /\ SourceReturned(<<>>, l, "not_found")
                         /\ UNCHANGED walkVars
    /\ UNCHANGED <<SELENIUM_AVAILABLE, args, start_date, end_date, use_selenium, srcs,
                   out, fetchCall>>

\* The walk's loop body up to the fetch: lines 238-244.
WalkFetch ==
    /\ pc = "walk"
    /\ WalkContinues(next_url, visited)
    /\ visited' = visited \cup {next_url}
    /\ fetched' = Append(fetched, next_url)
    /\ LET l == LogFetch(log, CurSource) IN
       \E t \in TransportOutcomes :
         \E rn \in RenderChoices(t, SELENIUM_AVAILABLE) :
            LET res == Fetch(use_selenium, SELENIUM_AVAILABLE, t, rn) IN
            IF res.ret = "return"
            THEN /\ pc' = "walk_parse"
                 /\ log' = l
                 /\ UNCHANGED <<si, results, exitCode, next_url, reviews>>
            ELSE IF WalkOnFetchError = "break"
                 THEN /\ pc' = "walk_filter"
                      /\ log' = l
                      /\ UNCHANGED <<si, results, exitCode, next_url, reviews>>
                 ELSE SourceRaised(l) /\ UNCHANGED <<next_url, reviews>>
    /\ UNCHANGED <<SELENIUM_AVAILABLE, args, start_date, end_date, use_selenium, srcs,
                   out, candIdx, fetchCall>>

\* Lines 245-246: reviews.extend(parse_reviews_from_soup(soup, source))
WalkParse ==
    /\ pc = "walk_parse"
    /\ \E cands \in PageChoices :
         LET recs == ParseReviews(cands, CurSource) IN
         /\ Len(results) + Len(reviews) + Len(recs) <= MaxReviews
         /\ reviews' = reviews \o recs
    /\ pc' = "walk_next"
    /\ UNCHANGED <<SELENIUM_AVAILABLE, args, mainVars, candIdx, next_url, visited, fetched,
                   log, fetchCall>>

\* Lines 247-264: find the next link in the same page; then back to line 238.
WalkNext ==
    /\ pc = "walk_next"
    /\ \E nav \in NavChoices : next_url' = FindNext(nav, next_url)
    /\ pc' = "walk"
    /\ UNCHANGED <<SELENIUM_AVAILABLE, args, mainVars, candIdx, visited, reviews, fetched,
                   log, fetchCall>>

\* The loop is left (condition false, or break): filter by date and return,
\* lines 266-278; main extends results.
WalkReturn ==
    /\ \/ pc = "walk" /\ ~WalkContinues(next_url, visited)
       \/ pc = "walk_filter"
    /\ SourceReturned(FilterByDate(reviews, start_date, end_date), log, "returned")
    /\ next_url' = NoUrl
    /\ visited' = {}
    /\ reviews' = <<>>
    /\ fetched' = <<>>
    /\ UNCHANGED <<SELENIUM_AVAILABLE, args, start_date, end_date, use_selenium, srcs,
                   out, candIdx, fetchCall>>

\* Lines 344-355: write the report.
WriteOutput ==
    /\ pc = "loop"
    /\ si > Len(srcs)
    /\ out' = <<[start |-> IsoFormat(start_date), end |-> IsoFormat(end_date),
                 source |-> args.source, reviews |-> results]>>
    /\ pc' = "done"
    /\ UNCHANGED <<SELENIUM_AVAILABLE, args, start_date, end_date, use_selenium, srcs, si,
                   results, exitCode, candIdx, walkVars, log, fetchCall>>

(* --------------------------- specifications ---------------------------- *)
Idle ==
    /\ exitCode = -1 /\ out = <<>>
    /\ candIdx = 1
    /\ visited = {} /\ reviews = <<>> /\ fetched = <<>>
    /\ fetchCall = NoCall

ArgSets == [start : DateArgs, end : DateArgs, source : SourceArgs, use_selenium : BOOLEAN]

\* The process starts: any command line, selenium importable or not.
Init ==
    /\ SELENIUM_AVAILABLE \in BOOLEAN
    /\ args \in ArgSets
    /\ pc = "start"
    /\ start_date = 0 /\ end_date = 0 /\ use_selenium = FALSE
    /\ srcs = <<>> /\ si = 1 /\ results = <<>>
    /\ next_url = NoUrl
    /\ log = <<>>
    /\ Idle

Next ==
    \/ MainStart
    \/ SearchLink
    \/ CapterraCandidate
    \/ WalkFetch
    \/ WalkParse
    \/ WalkNext
    \/ WalkReturn
    \/ WriteOutput

Spec == Init /\ [][Next]_vars

\* The run never idles before it is over: every step is taken in the end.
SpecFair == Spec /\ WF_vars(Next)

\* fetch called directly, any arguments.
InitFetch ==
    /\ SELENIUM_AVAILABLE \in BOOLEAN
    /\ args \in {a \in ArgSets : a.start = 1 /\ a.end = 1 /\ a.source = "all"}
    /\ pc = "fetch"
    /\ start_date = 0 /\ end_date = 0 /\ use_selenium = FALSE
    /\ srcs = <<>> /\ si = 1 /\ results = <<>>
    /\ next_url = NoUrl
    /\ log = <<>>
    /\ Idle

SpecFetch == InitFetch /\ [][FetchCall]_vars

\* _scrape_with_pagination entered from scrape_<source> with the link found:
\* main's state at that call, for one requested source.
InitWalk ==
    /\ SELENIUM_AVAILABLE \in BOOLEAN
    /\ args \in {a \in ArgSets : a.start # BadDate /\ a.end # BadDate /\ a.source # "all"}
    /\ pc = "walk"
    /\ start_date = args.start /\ end_date = args.end
    /\ use_selenium = (args.use_selenium /\ SELENIUM_AVAILABLE)
    /\ srcs = SrcsOf(args.source) /\ si = 1 /\ results = <<>>
    /\ next_url \in Urls
    /\ log = <<[src |-> args.source, ev |-> "fetch"]>>
    /\ Idle

NextWalk ==
    \/ WalkFetch
    \/ WalkParse
    \/ WalkNext
    \/ WalkReturn

SpecWalk == InitWalk /\ [][NextWalk]_vars

\* The walk is one sequential function: its next step is always taken.
SpecWalkFair == SpecWalk /\ WF_vars(NextWalk)

(* ------------------------- claims: vocabulary -------------------------- *)
Range(s) == {s[i] : i \in 1..Len(s)}
IsPrefix(a, b) == Len(a) <= Len(b) /\ SubSeq(b, 1, Len(a)) = a
Suffix(a, b) == SubSeq(b, Len(a) + 1, Len(b))
Count(s, x) == Cardinality({i \in 1..Len(s) : s[i] = x})
NoRepeat(s) == \A i, j \in 1..Len(s) : i # j => s[i] # s[j]

RECURSIVE IsSubseq(_, _)
IsSubseq(a, b) ==
    IF a = <<>> THEN TRUE
    ELSE IF b = <<>> THEN FALSE
    ELSE IF Head(a) = Head(b) THEN IsSubseq(Tail(a), Tail(b))
    ELSE IsSubseq(a, Tail(b))

\* The window test of the claims, on a record as it is stored.
Kept(r) == r.date = NoDate \/ (start_date <= r.date[1] /\ r.date[1] <= end_date)

TransportErrors == {"HTTPError", "ConnectionError", "RetryError"}
Opens(ev) == Count(ev, "open")
Quits(ev) == Count(ev, "quit")

(* ------------------------------- fetch --------------------------------- *)
\* C1: on a 403 response, with the rendering capability present fetch does a
\* rendered fetch and returns the rendered document; with the capability
\* absent fetch fails with a reason of its own, naming the missing capability,
\* not with a transport or HTTP error.
C1_AsStated ==
    (fetchCall.called /\ fetchCall.status = 403) =>
        IF SELENIUM_AVAILABLE
        THEN /\ fetchCall.result.events # <<>>
             /\ fetchCall.rn = "ok" =>
                    fetchCall.result.ret = "return" /\ fetchCall.result.via = "render"
        ELSE /\ fetchCall.result.ret = "raise"
             /\ fetchCall.result.exc \notin TransportErrors

\* C9: with the render hint set and the capability present, fetch
\* returns the rendered DOM, also when the plain GET answers 2xx.
C9_AsStated ==
    (fetchCall.called /\ fetchCall.hint /\ SELENIUM_AVAILABLE /\ fetchCall.status = 200) =>
        fetchCall.result.ret = "return" /\ fetchCall.result.via = "render"

\* C10: a browser session that fetch opens is quit exactly once, as the last
\* thing before fetch returns or raises, whether or not navigation and capture
\* succeed; a rendering that fails is raised as a fetch failure and never
\* returned as a document.
C10_SessionReleased ==
    fetchCall.called =>
        LET ev == fetchCall.result.events IN
        /\ Opens(ev) <= 1
        /\ Quits(ev) = Opens(ev)
        /\ Opens(ev) = 1 => ev[Len(ev)] = "quit"
        /\ (ev # <<>> /\ fetchCall.rn # "ok") =>
               fetchCall.result.ret = "raise" /\ fetchCall.result.exc = "SeleniumFetchFailed"
        /\ (fetchCall.result.ret = "return" /\ fetchCall.result.via = "render") =>
               fetchCall.rn = "ok" /\ Count(ev, "page_source") = 1

C10_Witness ==
    /\ fetchCall.called
    /\ fetchCall.rn = "get_fails"
    /\ Opens(fetchCall.result.events) = 1
    /\ fetchCall.result.ret = "raise"

(* -------------------------------- walk --------------------------------- *)
WalkOver == pc = "loop" \/ pc = "done" \/ pc = "exited"

\* C2: the walk fetches no URL twice, leaves the loop without a fetch as soon
\* as there is no next URL or the next URL was already fetched, and ends.
C2_Terminates ==
    /\ [](NoRepeat(fetched))
    /\ [][(pc = "walk" /\ (next_url = NoUrl \/ next_url \in Range(fetched)))
            => (pc' = "loop" /\ fetched' = <<>>)]_vars
    /\ <>WalkOver

\* page B's next link leads back to page A
C2_Witness ==
    /\ pc = "walk"
    /\ Len(fetched) = 2
    /\ next_url = fetched[1]

\* C4: what the walk returns is the collected records in their order, each
\* undated record kept, each dated record kept iff start <= d <= end, none added.
C4_DateFilter ==
    [][((pc = "walk" \/ pc = "walk_filter") /\ pc' = "loop") =>
          LET ret == Suffix(results, results') IN
          /\ IsPrefix(results, results')
          /\ IsSubseq(ret, reviews)
          /\ \A r \in Range(reviews) :
                Count(ret, r) = IF Kept(r) THEN Count(reviews, r) ELSE 0]_vars

\* the walk is about to return with a record dated on the end bound and a
\* dated record outside the window
C4_Witness ==
    /\ pc = "walk_filter" \/ (pc = "walk" /\ ~WalkContinues(next_url, visited))
    /\ \E i, j \in 1..Len(reviews) :
          /\ reviews[i].date = <<end_date>>
          /\ start_date <= end_date
          /\ reviews[j].date # NoDate /\ ~Kept(reviews[j])

\* C5: a failed page fetch never leaves the walk as an exception: the walk
\* stops there, fetches nothing more, and returns the date-filtered records of
\* the pages fetched before.
C5_PartialResults ==
    [][/\ (pc = "walk" /\ next_url # NoUrl /\ next_url \notin visited) =>
              /\ pc' = "walk_parse" \/ pc' = "walk_filter"
              /\ reviews' = reviews /\ results' = results /\ si' = si
              /\ exitCode' = exitCode
       /\ pc = "walk_filter" =>
              /\ pc' = "loop"
              /\ results' = results \o SelectSeq(reviews, Kept)
              /\ log' = Append(log, [src |-> srcs[si], ev |-> "returned"])]_vars

\* the second page's fetch failed after the first page gave a record in the window
C5_Witness ==
    /\ pc = "walk_filter"
    /\ Len(fetched) = 2
    /\ SelectSeq(reviews, Kept) # <<>>

\* C8: what a source contributes holds no two records with the same
\* description, also when they come from two pages.
C8_AsStated ==
    pc = "loop" =>
        \A i, j \in 1..Len(results) :
            i # j => results[i].description # results[j].description

(* -------------------------------- main --------------------------------- *)
Parsable == args.start # BadDate /\ args.end # BadDate
Requested == IF args.source = "all" THEN <<"g2", "capterra", "trustradius">>
             ELSE <<args.source>>
EndEvents == {"raised", "not_found", "returned"}

\* C3: with parsable dates and start <= end the run does not abort
\* before the first fetch; with start > end or an unparsable date it exits
\* non-zero before any fetch and writes no output file.
C3_AsStated ==
    /\ (Parsable /\ args.start <= args.end) => pc # "exited"
    /\ (~Parsable \/ args.start > args.end) =>
          /\ log = <<>>
          /\ out = <<>>
          /\ pc # "done"
          /\ pc = "exited" => exitCode > 0

\* C6: once the dates are parsed, a source that raises or finds no link adds
\* nothing to results, what was collected stays as it is, every requested
\* source is tried, and the run gets to write the output file.
C6_Isolation ==
    /\ [](Parsable => pc # "exited")
    /\ [](pc = "done" =>
            /\ out # <<>> /\ out[1].reviews = results
            /\ \A k \in 1..Len(Requested) :
                  \E i \in 1..Len(log) : log[i].src = Requested[k] /\ log[i].ev \in EndEvents)
    /\ [][/\ IsPrefix(results, results')
          /\ \A k \in (Len(results) + 1)..Len(results') : results'[k].source = srcs[si]
          /\ (log' # log /\ log'[Len(log')].ev \in {"raised", "not_found"}) =>
                (results' = results /\ pc' = "loop" /\ si' = si + 1)]_vars
    /\ Parsable ~> (pc = "done")

\* g2 raised, capterra was scraped all the same, and the report was written
C6_Witness ==
    /\ pc = "done" /\ out # <<>>
    /\ \E i \in 1..Len(log) : log[i] = [src |-> "g2", ev |-> "raised"]
    /\ \E k \in 1..Len(results) : results[k].source = "capterra"

====
